---- MODULE Spec2Model ----
(***************************************************************************)
(* Model of the Twilio media-stream voice bot (main.py, agent.py,          *)
(* groq_client.py, properties.py).  One call is served by one coroutine,  *)
(* media_stream, that reads the transport's messages one at a time; the   *)
(* transport keeps delivering messages into the connection's receive      *)
(* queue while the coroutine is busy with a turn.                         *)
(*                                                                         *)
(* Audio is modelled by its length in bytes and the set of byte values it  *)
(* contains, which is all the handler ever looks at (len(), set(), the     *)
(* all-0xff / all-0x00 comparison).  Confidence is in hundredths.  The     *)
(* logging-only counter chunks_received is left out.                       *)
(***************************************************************************)
EXTENDS Integers, Sequences, FiniteSets, TLC

\* ---- bounds of the model ------------------------------------------------
MaxMsgs  == 4      \* transport messages delivered during one call
MaxInbox == 1      \* messages waiting in the receive queue
MaxTime  == 6      \* last value of the clock (seconds)
MaxCalls == 2      \* calls connected at the same time
MaxLog   == 3      \* messages of a logged conversation, chunks of a recording

\* ---- program constants ----------------------------------------------------
BUFFER_SIZE    == 40000
UNIQUE_MIN     == 10
MIN_TEXT_LEN   == 3
MIN_CONFIDENCE == 60
COOLDOWN       == 5
chunk_size     == 160

None == "None"

\* concurrent calls served by the one process
Calls == 1..MaxCalls

\* conversation_history[-6:]
HISTORY_WINDOW == 6

\* CallRecorder(call_sid, storage_type)
StorageTypes == {"local", "cloudinary"}

\* CallRecorder.__init__: no file yet, not recording.  frames, paths, call,
\* result and uploaded are history: the chunks written to the open file, the
\* paths returned since the last start, the last method called, what it
\* returned, and whether it uploaded
NewRecorder(st) ==
    [storage_type |-> st, is_recording |-> FALSE, recording_file |-> None,
     frames |-> 0, paths |-> 0, call |-> "__init__", result |-> None,
     uploaded |-> FALSE]

\* call_sid given to start_conversation
CallSids == {"CA1", "CA2"}

\* role given to add_message
Roles == {"user", "assistant", "system"}

\* ---- audio frames the transport may deliver -----------------------------
FF_FRAME     == [len |-> 3600,  vals |-> {255}]
ZERO_FRAME   == [len |-> 160,   vals |-> {0}]
HUM_FRAME    == [len |-> 24000, vals |-> {127}]
SPEECH_FRAME == [len |-> 20000, vals |-> 1..12]
NO_FRAME     == [len |-> 0,     vals |-> {}]

FrameKinds == {FF_FRAME, ZERO_FRAME, HUM_FRAME, SPEECH_FRAME}

Events == {"connected", "start", "media", "stop", "disconnect", "bad"}

StreamSid == "MZ1"

\* ---- what the remote services may answer --------------------------------
Transcripts == { <<" ">>,
                 <<"s", "i", " ">>,
                 <<"m", "a", "r", " ">>,
                 <<" ", "l", "u", "j", "o", " ">> }

Confidences == {59, 60}

\* result["results"][0]["alternatives"][0], or a result without results
NoResults == [has |-> FALSE, transcript |-> <<>>, confidence |-> 0]

SttResults == {NoResults} \cup
              {[has |-> TRUE, transcript |-> t, confidence |-> c] :
                  t \in Transcripts, c \in Confidences}

spanish_models == <<"es-MX_BroadbandModel", "es-ES_BroadbandModel", "es-LA_BroadbandModel">>

Replies == { <<"o", "k">> }

TtsLengths == {0, 200}

greeting == <<"H", "o", "l", "a">>

\* ---- pure helpers -------------------------------------------------------
RECURSIVE SumLen(_)
SumLen(buf) == IF buf = <<>> THEN 0 ELSE Head(buf).len + SumLen(Tail(buf))

RECURSIVE AllVals(_)
AllVals(buf) == IF buf = <<>> THEN {} ELSE Head(buf).vals \cup AllVals(Tail(buf))

\* audio_bytes == b'\xff' * len(audio_bytes) or audio_bytes == b'\x00' * len(audio_bytes)
IsSilentFrame(f) == f.len = 0 \/ f.vals = {255} \/ f.vals = {0}

\* the unique-bytes check only rejects an empty buffer
TooFewUniqueBytes_off(buf) == Cardinality(AllVals(buf)) < 1

\* the distinct values counted over the frame appended last only
TooFewUniqueBytes_last(buf) ==
    buf # <<>> /\ Cardinality(buf[Len(buf)].vals) < UNIQUE_MIN

\* len(set(audio_buffer)) < 10
TooFewUniqueBytes(buf) == Cardinality(AllVals(buf)) < UNIQUE_MIN

RECURSIVE LStrip(_)
LStrip(s) == IF s # <<>> /\ Head(s) = " " THEN LStrip(Tail(s)) ELSE s

RECURSIVE RStrip(_)
RStrip(s) == IF s # <<>> /\ s[Len(s)] = " " THEN RStrip(SubSeq(s, 1, Len(s) - 1)) ELSE s

\* str.strip()
Strip(s) == RStrip(LStrip(s))

\* keyword in query_lower
Contains(sub, s) ==
    \E k \in 0..(Len(s) - Len(sub)) : SubSeq(s, k + 1, k + Len(sub)) = sub

\* the keywords of properties.py that the modelled transcripts can contain
PROPERTIES == << [id |-> 1, keywords |-> {<<"p","l","a","y","a">>, <<"m","a","r">>}],
                 [id |-> 2, keywords |-> {<<"f","a","m","i","l","i","a">>}],
                 [id |-> 3, keywords |-> {<<"l","u","j","o">>}],
                 [id |-> 4, keywords |-> {<<"p","l","a","y","a">>, <<"m","a","r">>, <<"l","u","j","o">>}],
                 [id |-> 5, keywords |-> {<<"l","u","j","o">>}] >>

Matches(prop, query) == \E kw \in prop.keywords : Contains(kw, query)

\* search_properties(query): the matching properties in list order
search_properties(query) ==
    SelectSeq(PROPERTIES, LAMBDA prop : Matches(prop, query))

\* the filter without the length test
Rejected_nolen(t, c) == t = <<>> \/ c < MIN_CONFIDENCE

\* not text or len(text) < 3 or confidence < 0.6
Rejected(t, c) == t = <<>> \/ Len(t) < MIN_TEXT_LEN \/ c < MIN_CONFIDENCE

\* the cooldown one second short
InCooldown_short(last, current) == last > 0 /\ current - last < COOLDOWN - 1

\* last_response_time > 0 and current_time - last_response_time < 5
InCooldown(last, current) == last > 0 /\ current - last < COOLDOWN


\* ---- state --------------------------------------------------------------
VARIABLES
    inbox,                   \* messages delivered by the transport, not yet read
    delivered,               \* number of messages delivered so far
    now,                     \* time.time(), in seconds
    pc,                      \* where media_stream is
    caller,                  \* where the function being run was called from:
                             \* send_audio_to_twilio for the "greeting" or a "reply",
                             \* process_and_save_conversation on "stop", "disconnect", "error"
    stream_sid,
    audio_buffer,            \* the frames accumulated, in order
    is_speaking,
    has_greeted,
    last_response_time,
    conversation,            \* conversation["messages"]
    model_i,                 \* index of the STT model being tried; 4 is the default model
    text,                    \* the accepted transcript of the running turn
    speak_text,              \* the text parameter of send_audio_to_twilio
    mulaw_audio,             \* length of the encoded reply
    i,                       \* offset of the next chunk to send
    sent,                    \* outbound media events, in order
    conversation_history,    \* groq_client.conversation_history (process-wide)
    last_mentioned_property, \* id of groq_client.last_mentioned_property, 0 for None
    stt_called,              \* history: stt.recognize has been invoked
    agent_calls,             \* history: agent_reply invocations
    outcome,                 \* history: how the step just taken by the handler ended a turn
    heard,                   \* history: text and confidence the step just taken extracted
    turn_start,              \* history: lengths of sent / conversation when the turn began
    only_silence,            \* history: every media frame delivered so far was silent
    silent_skipped,          \* history: a frame was skipped by the frame-level silence check
    utterances,              \* history: buffers taken for processing
    db_rows,                 \* rows inserted into analisis_conversaciones
    flush_calls,             \* history: invocations of process_and_save_conversation
    handlers,                \* the media_stream coroutines of concurrent calls, one
                             \* record per call: position, unread messages, text,
                             \* conversation["messages"]
    asked,                   \* history: ask_groq calls that returned, and that raised
    logger,                  \* conversation_logger.logger, its files, and the last
                             \* method called on it with what it returned
    recorder,                \* a CallRecorder, its file, and the last method called
                             \* on it with what it returned
    request                  \* the messages last passed to chat.completions.create,
                             \* and the call whose handler passed them

vars == << inbox, delivered, now, pc, caller, stream_sid, audio_buffer, is_speaking,
           has_greeted, last_response_time, conversation, model_i, text, speak_text,
           mulaw_audio, i, sent, conversation_history, last_mentioned_property,
           stt_called, agent_calls, outcome, heard, turn_start, only_silence, silent_skipped,
           utterances, db_rows, flush_calls, handlers, asked, request, logger, recorder >>

loopVars    == << handlers, request >>
toolVars    == << logger, recorder >>
envVars     == << inbox, delivered, only_silence, loopVars, toolVars >>
sessionVars == << stream_sid, audio_buffer, is_speaking, has_greeted,
                  last_response_time, conversation >>
turnVars    == << model_i, text >>
sendVars    == << caller, speak_text, mulaw_audio, i >>
groqVars    == << conversation_history, last_mentioned_property, asked >>
histVars    == << stt_called, agent_calls, turn_start, silent_skipped, utterances, db_rows, flush_calls >>

Init ==
    /\ inbox = <<>>
    /\ delivered = 0
    /\ now = 1
    /\ pc = "recv"
    /\ caller = None
    /\ stream_sid = None
    /\ audio_buffer = <<>>
    /\ is_speaking = FALSE
    /\ has_greeted = FALSE
    /\ last_response_time = 0
    /\ conversation = <<>>
    /\ model_i = 0
    /\ text = <<>>
    /\ speak_text = <<>>
    /\ mulaw_audio = 0
    /\ i = 0
    /\ sent = <<>>
    /\ conversation_history = <<>>
    /\ last_mentioned_property = 0
    /\ stt_called = FALSE
    /\ agent_calls = 0
    /\ outcome = None
    /\ heard = <<>>
    /\ turn_start = [sent |-> 0, msgs |-> 0, agent |-> 0]
    /\ only_silence = TRUE
    /\ silent_skipped = FALSE
    /\ utterances = 0
    /\ db_rows = <<>>
    /\ flush_calls = 0
    /\ handlers = [c \in Calls |->
                     [pc |-> "recv", pending |-> 0, text |-> <<>>, conversation |-> <<>>]]
    /\ asked = [ok |-> 0, failed |-> 0]
    /\ request = [call |-> 0, messages |-> <<>>]
    /\ logger = [current_conversation |-> <<>>, files |-> {}, call |-> None,
                 result |-> None]
    /\ recorder = NewRecorder("local")

\* ---- the transport ------------------------------------------------------
\* degenerate silence: every byte of the frame has the same value
AllSameByte(f) == Cardinality(f.vals) <= 1

Message(ev, f) == [event |-> ev, frame |-> f, sp |-> (ev = "media" /\ is_speaking)]

\* the handler reads nothing after a stop or a disconnect
HasClosing(q) == \E k \in DOMAIN q : q[k].event \in {"stop", "disconnect"}

\* The peer sends a message; it waits in the receive queue until the handler
\* reads it.  sp records whether the bot was speaking when a frame arrived.
\* A peer whose message made the loop fail goes on sending while the
\* conversation is processed; after a stop or a disconnect it sends nothing.
Deliver ==
    /\ pc # "done"
    /\ pc = "flush" => caller = "error"
    /\ delivered < MaxMsgs
    /\ Len(inbox) < MaxInbox
    /\ ~HasClosing(inbox)
    /\ \E ev \in Events :
         \E f \in (IF ev = "media" THEN FrameKinds ELSE {NO_FRAME}) :
            /\ inbox' = Append(inbox, Message(ev, f))
            /\ only_silence' = (only_silence /\ (ev = "media" => AllSameByte(f)))
    /\ delivered' = delivered + 1
    /\ UNCHANGED << now, pc, sessionVars, turnVars, sendVars, sent, groqVars,
                    histVars, outcome, heard, loopVars, toolVars >>

\* Time passes while the handler waits for its next message; the time a turn
\* takes is accounted for in Sleep.  The handler only ever looks at the time
\* elapsed since last_response_time, and only while that is below the
\* cooldown, so the clock is left alone where its value cannot matter.
Tick ==
    /\ pc = "recv"
    /\ now < MaxTime
    /\ last_response_time > 0
    /\ now - last_response_time < COOLDOWN
    /\ now' = now + 1
    /\ UNCHANGED << envVars, pc, sessionVars, turnVars, sendVars, sent, groqVars,
                    histVars, outcome, heard >>

\* ---- media_stream: reading one message -----------------------------------
\* messages are read while a turn is still running
CanReceive_busy == pc \notin {"flush", "done"} /\ inbox # <<>>

\* msg = await ws.receive_text()
CanReceive == pc = "recv" /\ inbox # <<>>

Consume == inbox' = Tail(inbox) /\ UNCHANGED << delivered, only_silence, loopVars, toolVars >>

TurnStart == [sent |-> Len(sent), msgs |-> Len(conversation), agent |-> agent_calls]

RecvConnected ==
    /\ CanReceive
    /\ Head(inbox).event = "connected"
    /\ Consume
    /\ outcome' = None
    /\ heard' = <<>>
    /\ UNCHANGED << now, pc, sessionVars, turnVars, sendVars, sent, groqVars, histVars >>

\* the start branch without the has_greeted test
RecvStart_regreets ==
    /\ CanReceive
    /\ Head(inbox).event = "start"
    /\ Consume
    /\ outcome' = None
    /\ heard' = <<>>
    /\ stream_sid' = StreamSid
    /\ has_greeted' = TRUE
    /\ is_speaking' = TRUE
    /\ caller' = "greeting"
    /\ speak_text' = greeting
    /\ pc' = "tts"
    /\ turn_start' = TurnStart
    /\ UNCHANGED << now, audio_buffer, last_response_time, conversation, turnVars,
                    mulaw_audio, i, sent, groqVars, stt_called, agent_calls,
                    silent_skipped, utterances, db_rows, flush_calls >>

\* the start branch; the greeting is sent through send_audio_to_twilio
RecvStart ==
    /\ CanReceive
    /\ Head(inbox).event = "start"
    /\ Consume
    /\ outcome' = None
    /\ heard' = <<>>
    /\ stream_sid' = StreamSid
    /\ IF ~has_greeted
          THEN /\ has_greeted' = TRUE
               /\ is_speaking' = TRUE
               /\ caller' = "greeting"
               /\ speak_text' = greeting
               /\ pc' = "tts"
               /\ turn_start' = TurnStart
          ELSE UNCHANGED << has_greeted, is_speaking, caller, speak_text, pc, turn_start >>
    /\ UNCHANGED << now, audio_buffer, last_response_time, conversation, turnVars,
                    mulaw_audio, i, sent, groqVars, stt_called, agent_calls,
                    silent_skipped, utterances, db_rows, flush_calls >>

Tagged(m) == [len |-> m.frame.len, vals |-> m.frame.vals, sp |-> m.sp]

\* the comparison with <= in place of <
StillFilling_late(buf) == SumLen(buf) <= BUFFER_SIZE

\* the comparison against twice the buffer size
StillFilling_slack(buf) == SumLen(buf) < 2 * BUFFER_SIZE

\* if len(audio_buffer) < BUFFER_SIZE: continue
StillFilling(buf) == SumLen(buf) < BUFFER_SIZE

\* audio_buffer += audio_bytes, and what follows once the buffer is full:
\* the unique-bytes check rejects it, or it is taken for processing
Accumulate(m) ==
    LET buf == Append(audio_buffer, Tagged(m)) IN
      IF StillFilling(buf)
         THEN /\ audio_buffer' = buf
              /\ outcome' = None
              /\ UNCHANGED << pc, is_speaking, turn_start, utterances >>
         ELSE IF TooFewUniqueBytes(buf)
                 THEN /\ audio_buffer' = <<>>
                      /\ is_speaking' = FALSE
                      /\ outcome' = "few_unique"
                      /\ turn_start' = TurnStart
                      /\ UNCHANGED << pc, utterances >>
                 ELSE /\ audio_buffer' = buf
                      /\ is_speaking' = TRUE
                      /\ outcome' = None
                      /\ turn_start' = TurnStart
                      /\ utterances' = utterances + 1
                      /\ pc' = "convert"

\* the media branch: the chunk is discarded while is_speaking is set, a
\* silent frame is skipped, any other frame is accumulated
RecvMedia ==
    /\ CanReceive
    /\ Head(inbox).event = "media"
    /\ Consume
    /\ heard' = <<>>
    /\ IF is_speaking
          THEN /\ outcome' = None
               /\ UNCHANGED << pc, audio_buffer, is_speaking, turn_start, utterances,
                               silent_skipped >>
          ELSE IF IsSilentFrame(Head(inbox).frame)
                  THEN /\ outcome' = None
                       /\ silent_skipped' = TRUE
                       /\ UNCHANGED << pc, audio_buffer, is_speaking, turn_start,
                                       utterances >>
                  ELSE /\ Accumulate(Head(inbox))
                       /\ UNCHANGED silent_skipped
    /\ UNCHANGED << now, stream_sid, has_greeted, last_response_time, conversation,
                    turnVars, sendVars, sent, groqVars, stt_called, agent_calls, db_rows, flush_calls >>

\* ---- media_stream: one turn ----------------------------------------------
\* the handler without is_speaking = False
TurnExcept_stuck(o) ==
    /\ audio_buffer' = <<>>
    /\ UNCHANGED is_speaking
    /\ pc' = "recv"
    /\ outcome' = o
    /\ heard' = <<>>
    /\ model_i' = 0
    /\ text' = <<>>

\* the handler without audio_buffer = b""
TurnExcept_keeps(o) ==
    /\ UNCHANGED audio_buffer
    /\ is_speaking' = FALSE
    /\ pc' = "recv"
    /\ outcome' = o
    /\ heard' = <<>>
    /\ model_i' = 0
    /\ text' = <<>>

\* except Exception as e: audio_buffer = b""; is_speaking = False; continue
TurnExcept(o) ==
    /\ audio_buffer' = <<>>
    /\ is_speaking' = FALSE
    /\ pc' = "recv"
    /\ outcome' = o
    /\ heard' = <<>>
    /\ model_i' = 0
    /\ text' = <<>>

\* pcm_audio = convert_mulaw_to_pcm_16k(audio_buffer)
ConvertOk ==
    /\ pc = "convert"
    /\ pc' = "stt"
    /\ model_i' = 1
    /\ UNCHANGED << envVars, now, sessionVars, text, sendVars, sent, groqVars,
                    histVars, outcome, heard >>

ConvertFail ==
    /\ pc = "convert"
    /\ TurnExcept("convert_failed")
    /\ UNCHANGED << envVars, now, stream_sid, has_greeted, last_response_time,
                    conversation, sendVars, sent, groqVars, histVars >>

UserEntry(t, c) == [role |-> "user", content |-> t, confidence |-> c]
AssistantEntry(r) == [role |-> "assistant", content |-> r]

\* the accepted transcript handed to the agent without being recorded
AfterTranscription_unrecorded(r) ==
    LET t == IF r.has THEN Strip(r.transcript) ELSE <<>>
        c == IF r.has THEN r.confidence ELSE 0
    IN  /\ audio_buffer' = <<>>
        /\ model_i' = 0
        /\ heard' = << [text |-> t, confidence |-> c] >>
        /\ UNCHANGED conversation
        /\ IF Rejected(t, c)
              THEN /\ is_speaking' = FALSE
                   /\ pc' = "recv"
                   /\ outcome' = "rejected"
                   /\ UNCHANGED text
              ELSE IF InCooldown(last_response_time, now)
                      THEN /\ is_speaking' = FALSE
                           /\ pc' = "recv"
                           /\ outcome' = "cooldown"
                           /\ UNCHANGED text
                      ELSE /\ is_speaking' = TRUE
                           /\ pc' = "agent"
                           /\ outcome' = None
                           /\ text' = t

\* the cooldown check placed before the user entry is recorded
AfterTranscription_unlogged(r) ==
    LET t == IF r.has THEN Strip(r.transcript) ELSE <<>>
        c == IF r.has THEN r.confidence ELSE 0
    IN  /\ audio_buffer' = <<>>
        /\ model_i' = 0
        /\ heard' = << [text |-> t, confidence |-> c] >>
        /\ IF Rejected(t, c)
              THEN /\ is_speaking' = FALSE
                   /\ pc' = "recv"
                   /\ outcome' = "rejected"
                   /\ UNCHANGED << conversation, text >>
              ELSE IF InCooldown(last_response_time, now)
                      THEN /\ is_speaking' = FALSE
                           /\ pc' = "recv"
                           /\ outcome' = "cooldown"
                           /\ UNCHANGED << conversation, text >>
                      ELSE /\ conversation' = Append(conversation, UserEntry(t, c))
                           /\ is_speaking' = TRUE
                           /\ pc' = "agent"
                           /\ outcome' = None
                           /\ text' = t

\* from the extraction of text and confidence to the cooldown check
AfterTranscription(r) ==
    LET t == IF r.has THEN Strip(r.transcript) ELSE <<>>
        c == IF r.has THEN r.confidence ELSE 0
    IN  /\ audio_buffer' = <<>>
        /\ model_i' = 0
        /\ heard' = << [text |-> t, confidence |-> c] >>
        /\ IF Rejected(t, c)
              THEN /\ is_speaking' = FALSE
                   /\ pc' = "recv"
                   /\ outcome' = "rejected"
                   /\ UNCHANGED << conversation, text >>
              ELSE /\ conversation' = Append(conversation, UserEntry(t, c))
                   /\ IF InCooldown(last_response_time, now)
                         THEN /\ is_speaking' = FALSE
                              /\ pc' = "recv"
                              /\ outcome' = "cooldown"
                              /\ UNCHANGED text
                         ELSE /\ is_speaking' = TRUE
                              /\ pc' = "agent"
                              /\ outcome' = None
                              /\ text' = t

\* for model in spanish_models: one stt.recognize call that raises
SttModelRaises ==
    /\ pc = "stt"
    /\ model_i \in DOMAIN spanish_models
    /\ stt_called' = TRUE
    /\ model_i' = model_i + 1
    /\ UNCHANGED << envVars, now, pc, sessionVars, text, sendVars, sent, groqVars,
                    agent_calls, turn_start, silent_skipped, utterances, db_rows, flush_calls, outcome, heard >>

\* for model in spanish_models: one stt.recognize call that returns
SttModelReturns ==
    /\ pc = "stt"
    /\ model_i \in DOMAIN spanish_models
    /\ stt_called' = TRUE
    /\ \E r \in SttResults : AfterTranscription(r)
    /\ UNCHANGED << envVars, now, stream_sid, has_greeted, last_response_time,
                    sendVars, sent, groqVars,
                    agent_calls, turn_start, silent_skipped, utterances, db_rows, flush_calls >>

\* if not result: the call with the default model, which returns
SttDefaultReturns ==
    /\ pc = "stt"
    /\ model_i = Len(spanish_models) + 1
    /\ stt_called' = TRUE
    /\ \E r \in SttResults : AfterTranscription(r)
    /\ UNCHANGED << envVars, now, stream_sid, has_greeted, last_response_time,
                    sendVars, sent, groqVars,
                    agent_calls, turn_start, silent_skipped, utterances, db_rows, flush_calls >>

\* the exception of the default model escapes the turn and ends the call
SttDefaultRaises_fatal ==
    /\ pc = "stt"
    /\ model_i = Len(spanish_models) + 1
    /\ stt_called' = TRUE
    /\ pc' = IF conversation # <<>> THEN "flush" ELSE "done"
    /\ outcome' = "stt_failed"
    /\ heard' = <<>>
    /\ UNCHANGED << envVars, now, sessionVars, turnVars, sendVars, sent, groqVars,
                    agent_calls, turn_start, silent_skipped, utterances, db_rows, flush_calls >>

\* if not result: the call with the default model, which raises
SttDefaultRaises ==
    /\ pc = "stt"
    /\ model_i = Len(spanish_models) + 1
    /\ stt_called' = TRUE
    /\ TurnExcept("stt_failed")
    /\ UNCHANGED << envVars, now, stream_sid, has_greeted, last_response_time,
                    conversation, sendVars, sent, groqVars,
                    agent_calls, turn_start, silent_skipped, utterances, db_rows, flush_calls >>

\* ---- agent_reply / ask_groq ---------------------------------------------
apology == <<"r", "e", "p", "e", "t", "i", "r">>

\* ask_groq up to the request: the prompt is appended to the history
HistoryWithPrompt(prompt) == Append(conversation_history, UserEntry(prompt, 0))

MentionedAfter(prompt) ==
    LET matching_properties == search_properties(prompt) IN
      IF matching_properties # <<>> THEN matching_properties[1].id
                                    ELSE last_mentioned_property

\* reply = agent_reply(text) returns; the reply is stored and handed to
\* send_audio_to_twilio
AgentReturns ==
    /\ pc = "agent"
    /\ agent_calls' = agent_calls + 1
    /\ \E r \in Replies :
         LET reply == IF text = <<>> THEN apology ELSE r IN
           /\ IF text = <<>>
                 THEN UNCHANGED groqVars
                 ELSE /\ conversation_history' =
                            Append(HistoryWithPrompt(text), AssistantEntry(r))
                      /\ last_mentioned_property' = MentionedAfter(text)
                      /\ asked' = [asked EXCEPT !.ok = @ + 1]
           /\ conversation' = Append(conversation, AssistantEntry(reply))
           /\ speak_text' = reply
    /\ caller' = "reply"
    /\ pc' = "tts"
    /\ heard' = <<>>
    /\ UNCHANGED << envVars, now, stream_sid, audio_buffer, is_speaking, has_greeted,
                    last_response_time, turnVars, mulaw_audio, i, sent,
                    stt_called, turn_start, silent_skipped, utterances, db_rows, flush_calls, outcome >>

\* a failed request is answered by speaking a phrase that was never generated
AgentRaises_speaks ==
    /\ pc = "agent"
    /\ text # <<>>
    /\ agent_calls' = agent_calls + 1
    /\ conversation_history' = Append(conversation_history, UserEntry(text, 0))
    /\ asked' = [asked EXCEPT !.failed = @ + 1]
    /\ UNCHANGED last_mentioned_property
    /\ speak_text' = <<"e", "r", "r", "o", "r">>
    /\ caller' = "reply"
    /\ pc' = "tts"
    /\ heard' = <<>>
    /\ UNCHANGED << envVars, now, sessionVars, turnVars, mulaw_audio, i, sent,
                    stt_called, turn_start, silent_skipped, utterances, db_rows, flush_calls, outcome >>

\* reply = agent_reply(text) raises: the request to Groq failed
AgentRaises ==
    /\ pc = "agent"
    /\ text # <<>>
    /\ agent_calls' = agent_calls + 1
    /\ conversation_history' = HistoryWithPrompt(text)
    /\ last_mentioned_property' = MentionedAfter(text)
    /\ asked' = [asked EXCEPT !.failed = @ + 1]
    /\ TurnExcept("agent_failed")
    /\ UNCHANGED << envVars, now, stream_sid, has_greeted, last_response_time,
                    conversation, sendVars, sent,
                    stt_called, turn_start, silent_skipped, utterances, db_rows, flush_calls >>

\* ---- send_audio_to_twilio -------------------------------------------------
Min(a, b) == IF a < b THEN a ELSE b

\* the caller going on to its next read without is_speaking = False
ReturnFromSend_speaking(t, o) ==
    /\ UNCHANGED is_speaking
    /\ pc' = "recv"
    /\ caller' = None
    /\ speak_text' = <<>>
    /\ mulaw_audio' = 0
    /\ i' = 0
    /\ model_i' = 0
    /\ text' = <<>>
    /\ outcome' = o
    /\ heard' = <<>>
    /\ IF caller = "greeting"
          THEN /\ audio_buffer' = <<>>
               /\ UNCHANGED last_response_time
          ELSE /\ last_response_time' = t
               /\ UNCHANGED audio_buffer

\* send_audio_to_twilio returns at time t; the caller goes on to its next read
ReturnFromSend(t, o) ==
    /\ is_speaking' = FALSE
    /\ pc' = "recv"
    /\ caller' = None
    /\ speak_text' = <<>>
    /\ mulaw_audio' = 0
    /\ i' = 0
    /\ model_i' = 0
    /\ text' = <<>>
    /\ outcome' = o
    /\ heard' = <<>>
    /\ IF caller = "greeting"
          THEN /\ audio_buffer' = <<>>
               /\ UNCHANGED last_response_time
          ELSE /\ last_response_time' = t
               /\ UNCHANGED audio_buffer

\* tts.synthesize and convert_wav_to_mulaw_8k succeed
TtsOk ==
    /\ pc = "tts"
    /\ \E n \in TtsLengths :
         /\ mulaw_audio' = n
         /\ pc' = IF n = 0 THEN "sleep" ELSE "send"
    /\ i' = 0
    /\ UNCHANGED << envVars, now, sessionVars, turnVars, caller, speak_text, sent,
                    groqVars, histVars, outcome, heard >>

\* send_audio_to_twilio without its try/except: the exception reaches the
\* caller's handler, the turn's for a reply, the loop's for the greeting
TtsFail_propagates ==
    /\ pc = "tts"
    /\ caller' = None
    /\ speak_text' = <<>>
    /\ mulaw_audio' = 0
    /\ i' = 0
    /\ IF caller = "greeting"
          THEN /\ pc' = IF conversation # <<>> THEN "flush" ELSE "done"
               /\ outcome' = "tts_failed"
               /\ heard' = <<>>
               /\ UNCHANGED << audio_buffer, is_speaking, model_i, text >>
          ELSE TurnExcept("tts_failed")
    /\ UNCHANGED << envVars, now, stream_sid, has_greeted, last_response_time,
                    conversation, sent, groqVars, histVars >>

\* tts.synthesize or convert_wav_to_mulaw_8k raises: except Exception, print
TtsFail ==
    /\ pc = "tts"
    /\ ReturnFromSend(now, "tts_failed")
    /\ UNCHANGED << envVars, now, stream_sid, has_greeted, conversation, sent,
                    groqVars, histVars >>

\* the rest of the audio in one event
MediaEvent_whole == [src |-> caller, text |-> speak_text, at |-> now,
                     streamSid |-> stream_sid, off |-> i, n |-> mulaw_audio - i]

\* src, text and at are history: who was speaking, what, and when
MediaEvent == [src |-> caller, text |-> speak_text, at |-> now, streamSid |-> stream_sid,
               off |-> i, n |-> Min(chunk_size, mulaw_audio - i)]

\* await ws.send_json({"event": "media", ...}) for the chunk at offset i
SendChunk ==
    /\ pc = "send"
    /\ sent' = Append(sent, MediaEvent)
    /\ i' = i + chunk_size
    /\ pc' = IF i + chunk_size < mulaw_audio THEN "send" ELSE "sleep"
    /\ UNCHANGED << envVars, now, sessionVars, turnVars, caller, speak_text,
                    mulaw_audio, groqVars, histVars, outcome, heard >>

\* ws.send_json raises (the socket is gone): except Exception, print
SendFail ==
    /\ pc = "send"
    /\ ReturnFromSend(now, "send_failed")
    /\ UNCHANGED << envVars, now, stream_sid, has_greeted, conversation, sent,
                    groqVars, histVars >>

\* await asyncio.sleep(duration_seconds + 1.0)
Sleep ==
    /\ pc = "sleep"
    /\ now < MaxTime
    /\ now' = now + 1
    /\ ReturnFromSend(now + 1, "played")
    /\ UNCHANGED << envVars, stream_sid, has_greeted, conversation, sent,
                    groqVars, histVars >>

\* ---- teardown -------------------------------------------------------------
\* the stop branch: await process_and_save_conversation(conversation); break
\* the stop branch processing the conversation only if it has messages
RecvStop_guarded ==
    /\ CanReceive
    /\ Head(inbox).event = "stop"
    /\ Consume
    /\ outcome' = None
    /\ heard' = <<>>
    /\ caller' = "stop"
    /\ IF conversation # <<>>
          THEN /\ flush_calls' = flush_calls + 1
               /\ pc' = "flush"
          ELSE /\ pc' = "done"
               /\ UNCHANGED flush_calls
    /\ UNCHANGED << now, sessionVars, turnVars, speak_text, mulaw_audio, i, sent,
                    groqVars, stt_called, agent_calls, turn_start, silent_skipped,
                    utterances, db_rows >>

\* the stop branch: the conversation is processed and the loop is left
RecvStop ==
    /\ CanReceive
    /\ Head(inbox).event = "stop"
    /\ Consume
    /\ outcome' = None
    /\ heard' = <<>>
    /\ caller' = "stop"
    /\ flush_calls' = flush_calls + 1
    /\ pc' = "flush"
    /\ UNCHANGED << now, sessionVars, turnVars, speak_text, mulaw_audio, i, sent,
                    groqVars, stt_called, agent_calls, turn_start, silent_skipped,
                    utterances, db_rows >>

\* except WebSocketDisconnect / except Exception around the loop: receive_text
\* raises when the peer is gone, json.loads or a missing key raises on a
\* malformed message; the conversation is processed if it has messages
RecvClosed ==
    /\ CanReceive
    /\ Head(inbox).event \in {"disconnect", "bad"}
    /\ Consume
    /\ outcome' = None
    /\ heard' = <<>>
    /\ caller' = IF Head(inbox).event = "disconnect" THEN "disconnect" ELSE "error"
    /\ IF conversation # <<>>
          THEN /\ flush_calls' = flush_calls + 1
               /\ pc' = "flush"
          ELSE /\ pc' = "done"
               /\ UNCHANGED flush_calls
    /\ UNCHANGED << now, sessionVars, turnVars, speak_text, mulaw_audio, i, sent,
                    groqVars, stt_called, agent_calls, turn_start, silent_skipped,
                    utterances, db_rows >>

\* the loop going on after the flush of the stop branch (no break)
FlushReturns_loops == pc' = IF caller = "stop" THEN "recv" ELSE "done"

\* process_and_save_conversation returns: break, or the end of the except
\* clause; either way media_stream returns
FlushReturns == pc' = "done"

flushKept == << envVars, now, sessionVars, turnVars, speak_text, mulaw_audio, i, sent,
                groqVars, stt_called, agent_calls, turn_start, silent_skipped,
                utterances, heard >>

\* process_and_save_conversation without messages: nothing to do
FlushEmpty ==
    /\ pc = "flush"
    /\ conversation = <<>>
    /\ outcome' = "nothing_to_save"
    /\ FlushReturns
    /\ UNCHANGED << flushKept, caller, db_rows, flush_calls >>

\* the analysis is produced, parsed and inserted
FlushSaved ==
    /\ pc = "flush"
    /\ conversation # <<>>
    /\ db_rows' = Append(db_rows, [call_sid |-> stream_sid])
    /\ outcome' = "saved"
    /\ FlushReturns
    /\ UNCHANGED << flushKept, caller, flush_calls >>

\* process_and_save_conversation without its except clauses: the exception
\* reaches the call site.  From the stop branch it lands in the loop's
\* except Exception, which flushes again; from except WebSocketDisconnect it
\* leaves media_stream; the flush of except Exception has its own try
FlushFailed_raises ==
    /\ pc = "flush"
    /\ conversation # <<>>
    /\ outcome' = "flush_failed"
    /\ IF caller = "stop"
          THEN /\ caller' = "error"
               /\ flush_calls' = flush_calls + 1
               /\ pc' = "flush"
          ELSE /\ pc' = IF caller = "disconnect" THEN "crashed" ELSE "done"
               /\ UNCHANGED << caller, flush_calls >>
    /\ UNCHANGED << flushKept, db_rows >>

\* the analysis call raises, its answer is not valid JSON, or the database
\* connection or insert fails: the exception is printed inside
\* process_and_save_conversation and nothing is stored
FlushFailed ==
    /\ pc = "flush"
    /\ conversation # <<>>
    /\ outcome' = "flush_failed"
    /\ FlushReturns
    /\ UNCHANGED << flushKept, caller, db_rows, flush_calls >>

\* ---- specification --------------------------------------------------------
Next ==
    \/ Deliver
    \/ Tick
    \/ RecvConnected
    \/ RecvStart
    \/ RecvMedia
    \/ ConvertOk
    \/ ConvertFail
    \/ SttModelRaises
    \/ SttModelReturns
    \/ SttDefaultReturns
    \/ SttDefaultRaises
    \/ AgentReturns
    \/ AgentRaises
    \/ TtsOk
    \/ TtsFail
    \/ SendChunk
    \/ SendFail
    \/ Sleep
    \/ RecvStop
    \/ RecvClosed
    \/ FlushEmpty
    \/ FlushSaved
    \/ FlushFailed

Spec == Init /\ [][Next]_vars

TypeOK ==
    /\ pc \in {"recv", "convert", "stt", "agent", "tts", "send", "sleep", "flush", "done"}
    /\ is_speaking \in BOOLEAN
    /\ has_greeted \in BOOLEAN
    /\ now \in 1..MaxTime
    /\ last_response_time \in 0..MaxTime
    /\ Len(inbox) <= MaxInbox


\* ---- two calls on the one event loop --------------------------------------
\* Each websocket connection runs its own media_stream coroutine; all of them
\* run on one thread and share the module globals of groq_client.  A handler
\* is followed here from one await to the next: the read that fills its
\* buffer, the synchronous calls of the turn, and the awaits that send the
\* reply.
LastN(s, n) == IF Len(s) <= n THEN s ELSE SubSeq(s, Len(s) - n + 1, Len(s))

\* stt.recognize, agent_reply and tts.synthesize are plain calls: the
\* coroutine does not yield from the read that completes the buffer until
\* the first ws.send_json of the reply
Blocking == {"stt", "agent", "tts"}

\* no other coroutine is inside a synchronous call, so the loop can run c
LoopFree(c) == \A d \in Calls \ {c} : handlers[d].pc \notin Blocking

loopKept == << inbox, only_silence, now, pc, sessionVars, turnVars, sendVars, sent,
               histVars, outcome, heard, toolVars >>

\* the peer of call c sends the frame that will fill the buffer
CallDeliver(c) ==
    /\ delivered < MaxMsgs
    /\ handlers[c].pending < MaxInbox
    /\ handlers' = [handlers EXCEPT ![c].pending = @ + 1]
    /\ delivered' = delivered + 1
    /\ UNCHANGED << loopKept, groqVars, request >>

\* msg = await ws.receive_text() resumes; the buffer is full and the turn begins
CallReceive(c) ==
    /\ handlers[c].pc = "recv"
    /\ handlers[c].pending > 0
    /\ LoopFree(c)
    /\ handlers' = [handlers EXCEPT ![c].pending = @ - 1, ![c].pc = "stt"]
    /\ UNCHANGED << loopKept, delivered, groqVars, request >>

\* stt.recognize returns; the filter drops the transcript or records it
CallSttReturns(c) ==
    /\ handlers[c].pc = "stt"
    /\ \E r \in SttResults :
         LET t  == IF r.has THEN Strip(r.transcript) ELSE <<>>
             cf == IF r.has THEN r.confidence ELSE 0
         IN  handlers' =
               IF Rejected(t, cf)
                  THEN [handlers EXCEPT ![c].pc = "recv"]
                  ELSE [handlers EXCEPT ![c].pc = "agent",
                                        ![c].text = t,
                                        ![c].conversation = Append(@, UserEntry(t, cf))]
    /\ UNCHANGED << loopKept, delivered, groqVars, request >>

\* every stt.recognize call raises
CallSttRaises(c) ==
    /\ handlers[c].pc = "stt"
    /\ handlers' = [handlers EXCEPT ![c].pc = "recv"]
    /\ UNCHANGED << loopKept, delivered, groqVars, request >>

\* messages = [system, *conversation_history[-6:]] after the prompt was appended
RequestOf(c) ==
    [call |-> c,
     messages |-> LastN(HistoryWithPrompt(handlers[c].text), HISTORY_WINDOW)]

\* agent_reply -> ask_groq returns a reply
CallAskGroq(c) ==
    /\ handlers[c].pc = "agent"
    /\ request' = RequestOf(c)
    /\ last_mentioned_property' = MentionedAfter(handlers[c].text)
    /\ asked' = [asked EXCEPT !.ok = @ + 1]
    /\ \E r \in Replies :
         /\ conversation_history' =
               Append(HistoryWithPrompt(handlers[c].text), AssistantEntry(r))
         /\ handlers' = [handlers EXCEPT ![c].pc = "tts",
                                         ![c].text = <<>>,
                                         ![c].conversation = Append(@, AssistantEntry(r))]
    /\ UNCHANGED << loopKept, delivered >>

\* the prompt taken back out of the history when the request raises
CallAskGroqRaises_rollback(c) ==
    /\ handlers[c].pc = "agent"
    /\ request' = RequestOf(c)
    /\ last_mentioned_property' = MentionedAfter(handlers[c].text)
    /\ asked' = [asked EXCEPT !.failed = @ + 1]
    /\ UNCHANGED conversation_history
    /\ handlers' = [handlers EXCEPT ![c].pc = "recv", ![c].text = <<>>]
    /\ UNCHANGED << loopKept, delivered >>

\* the request raises after the prompt was appended to the history
CallAskGroqRaises(c) ==
    /\ handlers[c].pc = "agent"
    /\ request' = RequestOf(c)
    /\ last_mentioned_property' = MentionedAfter(handlers[c].text)
    /\ asked' = [asked EXCEPT !.failed = @ + 1]
    /\ conversation_history' = HistoryWithPrompt(handlers[c].text)
    /\ handlers' = [handlers EXCEPT ![c].pc = "recv", ![c].text = <<>>]
    /\ UNCHANGED << loopKept, delivered >>

\* tts.synthesize returns and the audio is converted
CallSynthesize(c) ==
    /\ handlers[c].pc = "tts"
    /\ handlers' = [handlers EXCEPT ![c].pc = "send"]
    /\ UNCHANGED << loopKept, delivered, groqVars, request >>

\* tts.synthesize or the conversion raises; send_audio_to_twilio prints and returns
CallSynthesizeFails(c) ==
    /\ handlers[c].pc = "tts"
    /\ handlers' = [handlers EXCEPT ![c].pc = "recv"]
    /\ UNCHANGED << loopKept, delivered, groqVars, request >>

\* await ws.send_json for every chunk, await asyncio.sleep, back to the read
CallSend(c) ==
    /\ handlers[c].pc = "send"
    /\ LoopFree(c)
    /\ handlers' = [handlers EXCEPT ![c].pc = "recv"]
    /\ UNCHANGED << loopKept, delivered, groqVars, request >>

LoopNext ==
    \E c \in Calls :
        \/ CallDeliver(c)
        \/ CallReceive(c)
        \/ CallSttReturns(c)
        \/ CallSttRaises(c)
        \/ CallAskGroq(c)
        \/ CallAskGroqRaises(c)
        \/ CallSynthesize(c)
        \/ CallSynthesizeFails(c)
        \/ CallSend(c)

LoopSpec == Init /\ [][LoopNext]_vars

\* ---- ConversationLogger ------------------------------------------------------
\* Everything but the logger stays as it is.
loggerKept == << inbox, delivered, only_silence, loopVars, recorder, now, pc,
                 sessionVars, turnVars, sendVars, sent, groqVars, histVars, outcome, heard >>

Active == logger.current_conversation # <<>>

\* metadata counting every role that is not "user" as an assistant message
Counted_else(conv, role) ==
    [conv EXCEPT !.total_user_messages = IF role = "user" THEN @ + 1 ELSE @,
                 !.total_assistant_messages = IF role # "user" THEN @ + 1 ELSE @]

\* if role == "user": ... += 1  elif role == "assistant": ... += 1
Counted(conv, role) ==
    [conv EXCEPT !.total_user_messages = IF role = "user" THEN @ + 1 ELSE @,
                 !.total_assistant_messages = IF role = "assistant" THEN @ + 1 ELSE @]

\* start_conversation(call_sid): a conversation that was active is replaced
start_conversation ==
    /\ \E sid \in CallSids :
         logger' = [logger EXCEPT
                      !.current_conversation =
                          << [call_sid |-> sid, messages |-> <<>>,
                              total_user_messages |-> 0,
                              total_assistant_messages |-> 0,
                              end_time |-> FALSE] >>,
                      !.call = "start_conversation",
                      !.result = None]
    /\ UNCHANGED loggerKept

\* add_message(role, content, confidence)
add_message ==
    /\ Active => Len(logger.current_conversation[1].messages) < MaxLog
    /\ \E role \in Roles :
         logger' = [logger EXCEPT
                      !.current_conversation =
                          IF ~Active
                             THEN @
                             ELSE << Counted([@[1] EXCEPT !.messages = Append(@, role)],
                                             role) >>,
                      !.call = "add_message",
                      !.result = None]
    /\ UNCHANGED loggerKept

\* end_conversation() with no conversation active: return None
end_conversation_none ==
    /\ ~Active
    /\ logger' = [logger EXCEPT !.call = "end_conversation", !.result = None]
    /\ UNCHANGED loggerKept

\* end_conversation(): the file is written and the conversation returned
end_conversation_saved ==
    /\ Active
    /\ logger' = [logger EXCEPT
                     !.current_conversation = <<>>,
                     !.files = @ \cup {logger.current_conversation[1].call_sid},
                     !.call = "end_conversation",
                     !.result = "conversation_data"]
    /\ UNCHANGED loggerKept

\* end_conversation(): open() or json.dump raises after end_time was set;
\* the exception leaves the method before current_conversation = None
end_conversation_raises ==
    /\ Active
    /\ logger' = [logger EXCEPT
                     !.current_conversation = << [@[1] EXCEPT !.end_time = TRUE] >>,
                     !.call = "end_conversation",
                     !.result = "raised"]
    /\ UNCHANGED loggerKept

LoggerNext ==
    \/ start_conversation
    \/ add_message
    \/ end_conversation_none
    \/ end_conversation_saved
    \/ end_conversation_raises

LoggerSpec == Init /\ [][LoggerNext]_vars

\* ---- CallRecorder ------------------------------------------------------------
\* Everything but the recorder stays as it is.
recorderKept == << inbox, delivered, only_silence, loopVars, logger, now, pc,
                   sessionVars, turnVars, sendVars, sent, groqVars, histVars, outcome, heard >>

\* CallRecorder(call_sid, storage_type)
CallRecorder_init ==
    /\ \E st \in StorageTypes : recorder' = NewRecorder(st)
    /\ UNCHANGED recorderKept

\* start_recording(): wave.open succeeds; the file is created or truncated
start_recording_ok ==
    /\ recorder' = [recorder EXCEPT !.is_recording = TRUE,
                                     !.recording_file = "open",
                                     !.frames = 0,
                                     !.paths = 0,
                                     !.call = "start_recording",
                                     !.result = None,
                                     !.uploaded = FALSE]
    /\ UNCHANGED recorderKept

\* start_recording(): wave.open raises; recording_file is what it was
start_recording_fails ==
    /\ recorder' = [recorder EXCEPT !.is_recording = FALSE,
                                     !.call = "start_recording",
                                     !.result = None,
                                     !.uploaded = FALSE]
    /\ UNCHANGED recorderKept

\* the guard of add_audio_chunk without the is_recording test
Accepts_any(rec) == rec.recording_file # None

\* not (not self.is_recording or not self.recording_file)
Accepts(rec) == rec.is_recording /\ rec.recording_file # None

\* add_audio_chunk(mulaw_chunk): nothing without a recording; otherwise the
\* chunk is converted and written, or the conversion or the write raises
\* and the error is logged
add_audio_chunk ==
    /\ recorder.frames < MaxLog
    /\ \E written \in BOOLEAN :
         /\ written => (Accepts(recorder) /\ recorder.recording_file = "open")
         /\ recorder' = [recorder EXCEPT !.frames = IF written THEN @ + 1 ELSE @,
                                          !.call = "add_audio_chunk",
                                          !.result = None,
                                          !.uploaded = FALSE]
    /\ UNCHANGED recorderKept

\* how stop_recording can go once it is past its first test
StopOutcomes == {"closed", "close_raises", "getsize_raises"}

\* stop_recording() as called by method m: None when not recording; else the
\* file is closed and its path returned, unless close or getsize raises
Stopped(rec, how, m) ==
    IF ~rec.is_recording
       THEN [rec EXCEPT !.call = m, !.result = None, !.uploaded = FALSE]
       ELSE [rec EXCEPT !.is_recording = FALSE,
                        !.recording_file =
                            IF @ = None \/ how # "close_raises" THEN None ELSE "closed",
                        !.paths = IF how = "closed" THEN @ + 1 ELSE @,
                        !.call = m,
                        !.result = IF how = "closed" THEN "filepath" ELSE None,
                        !.uploaded = FALSE]

stop_recording ==
    /\ \E how \in StopOutcomes : recorder' = Stopped(recorder, how, "stop_recording")
    /\ UNCHANGED recorderKept

\* finalize(): stop_recording, then the upload the storage type asks for
finalize ==
    /\ \E how \in StopOutcomes :
         LET rec == Stopped(recorder, how, "finalize") IN
           recorder' = [rec EXCEPT !.uploaded = (rec.result # None
                                                 /\ rec.storage_type # "local")]
    /\ UNCHANGED recorderKept

RecorderNext ==
    \/ CallRecorder_init
    \/ start_recording_ok
    \/ start_recording_fails
    \/ add_audio_chunk
    \/ stop_recording
    \/ finalize

RecorderSpec == Init /\ [][RecorderNext]_vars

\* ---- the states of the turn orchestrator ----------------------------------
ProcessingStages == {"convert", "stt", "agent"}
SpeakingStages   == {"tts", "send", "sleep"}

\* a turn (transcription, reply generation, synthesis, send) is running
InTurnAt(p, c) == p \in ProcessingStages \/ (p \in SpeakingStages /\ c = "reply")
InTurn == InTurnAt(pc, caller)

Listening == pc = "recv" /\ ~is_speaking

ReplyEvents == {k \in DOMAIN sent : sent[k].src = "reply"}

HasAssistantEntry(r) == \E j \in DOMAIN conversation : conversation[j] = AssistantEntry(r)

\* ---- claims -----------------------------------------------------------------

\* C1: no frame that arrived while the bot was speaking is ever appended to
\* the call's audio buffer (and so none is part of a later utterance).
C1_SpeakingFramesDropped ==
    \A k \in DOMAIN audio_buffer : ~audio_buffer[k].sp

\* C2: while a turn is running the bot-speaking flag is set, no transport
\* message is read, and the audio buffer does not grow: it holds the utterance
\* in flight until it is emptied, and it is empty from reply generation on.
C2_OneUtteranceInFlight ==
    [][InTurn => /\ is_speaking
                 /\ Len(inbox') >= Len(inbox)
                 /\ (audio_buffer' = audio_buffer \/ audio_buffer' = <<>>)
                 /\ (pc \in {"agent"} \cup SpeakingStages => audio_buffer = <<>>)]_vars

C2_Witness ==
    /\ pc = "stt"
    /\ inbox # <<>>
    /\ Head(inbox).event = "media"
    /\ ~AllSameByte(Head(inbox).frame)

\* C3 as stated: no outbound media event at all before an utterance has been
\* completed and a reply generated for it.
C3_NoAudioBeforeReply ==
    sent # <<>> => (utterances > 0 /\ \E j \in DOMAIN conversation :
                                         conversation[j].role = "assistant")

\* C3 amended: apart from the greeting, every outbound media event carries
\* audio of a reply that was generated for a completed utterance and stored.
C3_NoReplyAudioBeforeReply ==
    \A k \in DOMAIN sent :
        IF sent[k].src = "greeting"
           THEN has_greeted /\ sent[k].text = greeting
           ELSE /\ sent[k].src = "reply"
                /\ utterances > 0
                /\ sent[k].text \in Replies
                /\ HasAssistantEntry(sent[k].text)

C3_Witness == ReplyEvents # {}

\* C4: whatever way a turn ends, the handler is back at reading the next
\* message with the bot-speaking flag cleared.
C4_TurnEndsListening ==
    [][(InTurn /\ ~InTurnAt(pc', caller')) => (pc' = "recv" /\ ~is_speaking')]_vars

C4_Witness ==
    /\ outcome = "send_failed"
    /\ Len(conversation) = turn_start.msgs + 2
    /\ Listening

\* C5: after transcription failed (every model and the default raised) the
\* handler is listening again, nothing was sent and nothing was recorded.
C5_SttFailureSilent ==
    outcome = "stt_failed" =>
        /\ Listening
        /\ Len(sent) = turn_start.sent
        /\ Len(conversation) = turn_start.msgs
        /\ agent_calls = turn_start.agent

C5_Witness == outcome = "stt_failed" /\ stt_called /\ Listening

\* C6: the reply-generation stage always hands a reply to synthesis: the
\* generated one, or the fixed apology phrase when generation failed.
C6_ApologyOnAgentFailure ==
    [][(pc = "agent" /\ pc' # "agent") =>
          (pc' = "tts" /\ speak_text' \in Replies \cup {apology})]_vars

\* C7: after synthesis failed the handler is listening again, the call is not
\* torn down, and no media event was sent for that text.
C7_SynthesisFailureSilent ==
    outcome = "tts_failed" => (Listening /\ Len(sent) = turn_start.sent)

C7_Witness ==
    /\ outcome = "tts_failed"
    /\ Len(conversation) = turn_start.msgs + 2

\* C8: an accepted utterance transcribed less than 5 seconds after audio of a
\* reply was sent gets its user entry recorded and nothing else: the handler
\* goes back to listening, the agent is not called, nothing is sent.
RecentReply == \E k \in ReplyEvents : now - sent[k].at < COOLDOWN

C8_CooldownDropsSecond ==
    [][(pc = "stt" /\ Len(conversation') > Len(conversation) /\ RecentReply) =>
          /\ pc' = "recv"
          /\ ~is_speaking'
          /\ sent' = sent
          /\ agent_calls' = agent_calls
          /\ Len(conversation') = Len(conversation) + 1
          /\ conversation'[Len(conversation')].role = "user"]_vars

C8_Witness ==
    /\ outcome = "cooldown"
    /\ RecentReply
    /\ Len(conversation) = turn_start.msgs + 1

\* C9: a transcription with no text, fewer than 3 characters or confidence
\* below 0.6 is discarded: nothing recorded, no agent call, nothing sent, and
\* the handler listens again with an empty buffer.
C9_WeakTranscriptDiscarded ==
    \A h \in {heard[k] : k \in DOMAIN heard} :
        (h.text = <<>> \/ Len(h.text) < 3 \/ h.confidence < 60) =>
            /\ Listening
            /\ audio_buffer = <<>>
            /\ Len(conversation) = turn_start.msgs
            /\ agent_calls = turn_start.agent
            /\ Len(sent) = turn_start.sent

C9_Witness ==
    /\ heard # <<>>
    /\ Len(heard[1].text) = 2
    /\ heard[1].confidence >= 60

ReadsMedia ==
    /\ pc = "recv"
    /\ inbox # <<>>
    /\ Head(inbox).event = "media"
    /\ inbox' = Tail(inbox)

\* the buffer as it is once the frame being read has been appended
WithFrame == Append(audio_buffer, Tagged(Head(inbox)))

\* C11: non-silent audio completes an utterance in the very step in which the
\* buffer reaches BUFFER_SIZE, with no trailing silence needed, and the handler
\* never waits for a message with BUFFER_SIZE bytes or more in the buffer.
C11_CapCompletesUtterance ==
    [][ /\ (pc' = "recv" => SumLen(audio_buffer') < BUFFER_SIZE)
        /\ ( /\ ReadsMedia
             /\ ~is_speaking
             /\ ~AllSameByte(Head(inbox).frame)
             /\ SumLen(WithFrame) >= BUFFER_SIZE
             /\ Cardinality(AllVals(WithFrame)) >= UNIQUE_MIN )
           => /\ utterances' = utterances + 1
              /\ pc' = "convert"
              /\ audio_buffer' = WithFrame ]_vars

C11_Witness ==
    /\ pc = "convert"
    /\ SumLen(audio_buffer) = BUFFER_SIZE
    /\ ~silent_skipped
    /\ \A k \in DOMAIN audio_buffer : ~AllSameByte(audio_buffer[k])

\* C12: pause detection: when more than 16000 bytes with speech in them are
\* buffered and the handler reads 3600 bytes or more of trailing silence, one
\* utterance made of the buffered audio is completed in that step.
C12_PauseCompletesUtterance ==
    [][ ( /\ ReadsMedia
          /\ ~is_speaking
          /\ Head(inbox).frame.vals = {255}
          /\ Head(inbox).frame.len >= 3600
          /\ SumLen(audio_buffer) > 16000
          /\ \E k \in DOMAIN audio_buffer : ~AllSameByte(audio_buffer[k]) )
        => /\ utterances' = utterances + 1
           /\ pc' = "convert" ]_vars

\* C13: an utterance handed to conversion and transcription holds at least
\* BUFFER_SIZE bytes, and fewer than BUFFER_SIZE bytes without the frame
\* appended last.
C13_UtteranceLengthBounded ==
    pc \in {"convert", "stt"} =>
        /\ audio_buffer # <<>>
        /\ SumLen(audio_buffer) >= BUFFER_SIZE
        /\ SumLen(audio_buffer) - audio_buffer[Len(audio_buffer)].len < BUFFER_SIZE

C13_Witness ==
    /\ pc = "stt"
    /\ SumLen(audio_buffer) > BUFFER_SIZE

\* ---- teardown -------------------------------------------------------------
Closed == pc \in {"flush", "done"}

\* C14: however a call ends (stop, disconnect, failure of the loop),
\* process_and_save_conversation is invoked once for it and never twice.
C14_FlushExactlyOnce ==
    /\ flush_calls <= 1
    /\ Closed => flush_calls = 1

\* C14, amended: process_and_save_conversation is never invoked twice; it is
\* invoked once when the call ends by stop, and when it ends by disconnect or
\* failure with at least one message recorded; a call that ends by disconnect
\* or failure with nothing recorded is closed without invoking it.
C14_FlushAtMostOnce ==
    /\ flush_calls <= 1
    /\ ~Closed => flush_calls = 0
    /\ Closed => flush_calls = (IF caller = "stop" \/ conversation # <<>> THEN 1 ELSE 0)

C14_Witness ==
    /\ pc = "done"
    /\ caller = "stop"
    /\ conversation = <<>>
    /\ flush_calls = 1

\* C15: a flush that fails is swallowed: nothing is stored, the flush is not
\* repeated, and media_stream returns without an exception leaving it.
C15_FlushFailureSwallowed ==
    /\ pc # "crashed"
    /\ outcome = "flush_failed" => /\ pc = "done"
                                   /\ db_rows = <<>>
                                   /\ flush_calls = 1

C15_Witness ==
    /\ outcome = "flush_failed"
    /\ caller = "disconnect"
    /\ pc = "done"

\* C19: once the call is closed the handler reads no further message, takes
\* no utterance, calls no transcription or agent, records nothing and sends
\* nothing, and it stays closed.
C19_ClosedIsTerminal ==
    [][ Closed => /\ pc' \in {"flush", "done"}
                  /\ Len(inbox') >= Len(inbox)
                  /\ sent' = sent
                  /\ utterances' = utterances
                  /\ stt_called' = stt_called
                  /\ agent_calls' = agent_calls
                  /\ conversation' = conversation
                  /\ ~is_speaking' ]_vars

C19_Witness ==
    /\ pc = "done"
    /\ inbox # <<>>
    /\ sent # <<>>
    /\ conversation # <<>>

\* ---- the turn list ---------------------------------------------------------
Extends(new, old) ==
    /\ Len(new) >= Len(old)
    /\ SubSeq(new, 1, Len(old)) = old

\* the transcription returned in this step with a transcript that passes the filter
AcceptedNow ==
    /\ pc = "stt"
    /\ heard' # <<>>
    /\ Len(heard'[1].text) >= 3
    /\ heard'[1].confidence >= 60

\* agent_reply returned a reply in this step
ReplyProducedNow == pc = "agent" /\ pc' = "tts"

\* C17: the turn list only grows at its end: by the user entry (text and
\* confidence) in the step in which a transcript passes the filter, by the
\* assistant entry in the step in which a reply is produced, and in no other
\* step; no entry is removed or reordered.
C17_TurnListAppendOnly ==
    [][ /\ Extends(conversation', conversation)
        /\ AcceptedNow =>
              conversation' = Append(conversation,
                                     UserEntry(heard'[1].text, heard'[1].confidence))
        /\ ReplyProducedNow =>
              conversation' = Append(conversation, AssistantEntry(speak_text'))
        /\ (~AcceptedNow /\ ~ReplyProducedNow) => conversation' = conversation ]_vars

C17_Witness ==
    /\ Len(conversation) = 3
    /\ conversation[1].role = "user"
    /\ conversation[2].role = "assistant"
    /\ conversation[3].role = "user"
    /\ outcome = "cooldown"

\* ---- the greeting ----------------------------------------------------------
\* the handler reads a start message in this step
ReadsStart ==
    /\ pc = "recv"
    /\ inbox # <<>>
    /\ Head(inbox).event = "start"
    /\ inbox' = Tail(inbox)

\* C18: the first start makes the handler speak the greeting, a later start
\* leaves it listening and sends nothing; the greeting is begun only by a
\* start read before any greeting, so at most once per connection; when the
\* greeting ends the handler listens with an empty buffer.
C18_GreetingAtMostOnce ==
    [][ /\ has_greeted => has_greeted'
        /\ (ReadsStart /\ ~has_greeted) => /\ pc' = "tts"
                                           /\ caller' = "greeting"
                                           /\ speak_text' = greeting
                                           /\ is_speaking'
                                           /\ has_greeted'
        /\ (ReadsStart /\ has_greeted) => /\ pc' = "recv"
                                          /\ ~is_speaking'
                                          /\ caller' # "greeting"
                                          /\ sent' = sent
        /\ (caller' = "greeting" /\ caller # "greeting") => (ReadsStart /\ ~has_greeted)
        /\ (caller = "greeting" /\ caller' # "greeting") => /\ pc' = "recv"
                                                            /\ ~is_speaking'
                                                            /\ audio_buffer' = <<>> ]_vars

C18_Witness ==
    /\ has_greeted
    /\ pc = "recv"
    /\ \E k \in DOMAIN sent : sent[k].src = "greeting"
    /\ inbox # <<>>
    /\ Head(inbox).event = "start"

\* ---- concurrent calls -------------------------------------------------------
\* C16: no state is shared across calls: every user message in the request a
\* call's handler passes to the reply generator was said in that call, that
\* is, it is an entry of that call's own turn list.
C16_NoSharedState ==
    \A k \in DOMAIN request.messages :
        request.messages[k].role = "user" =>
            \E j \in DOMAIN handlers[request.call].conversation :
                /\ handlers[request.call].conversation[j].role = "user"
                /\ handlers[request.call].conversation[j].content =
                      request.messages[k].content

\* C20: a call inside a remote-call stage does not keep the loop from running
\* the handler of another call that has a message to read.
C20_RemoteCallsDoNotBlock ==
    \A c \in Calls : \A d \in Calls \ {c} :
        ( /\ handlers[c].pc \in Blocking
          /\ handlers[d].pc = "recv"
          /\ handlers[d].pending > 0 )
        => ENABLED CallReceive(d)

\* ---- the transcription stage ------------------------------------------------
\* C21: the models are tried in list order; the stage ends on a model whose
\* transcript is not empty, or with no result once every model of the list
\* has been tried, and then nothing is recorded or sent and the handler
\* listens again.
C21_StopsAtFirstTranscript ==
    [][ /\ (pc = "stt" /\ pc' = "stt") => model_i' \in {model_i, model_i + 1}
        /\ (pc = "stt" /\ heard' # <<>> /\ heard'[1].text = <<>>) =>
              /\ model_i >= Len(spanish_models)
              /\ pc' = "recv"
              /\ ~is_speaking'
              /\ conversation' = conversation
              /\ sent' = sent ]_vars

\* C22: a full buffer with fewer than 10 distinct byte values over all of its
\* frames, and only such a buffer, is rejected: no utterance is taken, no
\* transcription is called, nothing is recorded or sent, the buffer is
\* emptied and the handler keeps listening.
C22_FewUniqueBytesRejected ==
    [][ ( /\ ReadsMedia
          /\ ~is_speaking
          /\ Head(inbox).frame.vals \notin {{255}, {0}}
          /\ SumLen(WithFrame) >= BUFFER_SIZE )
        => IF Cardinality(AllVals(WithFrame)) < 10
              THEN /\ outcome' = "few_unique"
                   /\ pc' = "recv"
                   /\ ~is_speaking'
                   /\ audio_buffer' = <<>>
                   /\ utterances' = utterances
                   /\ stt_called' = stt_called
                   /\ conversation' = conversation
                   /\ sent' = sent
              ELSE /\ outcome' # "few_unique"
                   /\ pc' = "convert" ]_vars

C22_Witness ==
    /\ outcome = "few_unique"
    /\ ~silent_skipped
    /\ utterances = 0
    /\ audio_buffer = <<>>

\* C23: a frame all of whose bytes have the same value, whatever the value,
\* is never appended to the buffer.
C23_SameByteFrameNeverAppended ==
    \A k \in DOMAIN audio_buffer : ~AllSameByte(audio_buffer[k])

\* ---- the buffer between turns ------------------------------------------------
\* the ways a completed buffer can end
TurnOutcomes == {"few_unique", "convert_failed", "stt_failed", "rejected", "cooldown",
                 "agent_failed", "tts_failed", "send_failed", "played"}

\* C24: whatever became of a completed buffer (rejected for too few distinct
\* bytes, conversion or transcription error, transcript filtered out,
\* cooldown, agent failure, reply sent or not), the buffer is empty from the
\* end of transcription on and when the handler reads again, so the next
\* frame accepted starts a new buffer.
C24_BufferEmptyAfterEmission ==
    /\ outcome \in TurnOutcomes => (audio_buffer = <<>> /\ pc = "recv")
    /\ (pc = "agent" \/ (pc \in SpeakingStages /\ caller = "reply")) => audio_buffer = <<>>

C24_Witness ==
    /\ outcome = "convert_failed"
    /\ utterances = 1
    /\ audio_buffer = <<>>
    /\ inbox # <<>>
    /\ Head(inbox).event = "media"

\* C26: is_speaking is false whenever the handler waits for a message, so no
\* media message is ever read with is_speaking set.
C26_NotSpeakingAtReceive ==
    pc = "recv" => ~is_speaking

C26_Witness ==
    /\ pc = "recv"
    /\ ~is_speaking
    /\ inbox # <<>>
    /\ Head(inbox).event = "media"
    /\ Head(inbox).sp
    /\ outcome = "played"

\* ---- the order of the turn list ----------------------------------------------
RoleCount(conv, r) == Cardinality({k \in DOMAIN conv : conv[k].role = r})

UserAppended ==
    /\ Len(conversation') = Len(conversation) + 1
    /\ conversation'[Len(conversation')].role = "user"

\* C27: every assistant entry directly follows a user entry, so assistant
\* entries never outnumber user entries; while the reply is generated the
\* last entry is the turn's user entry; a user entry is left without an
\* assistant entry exactly when the cooldown drops the turn or agent_reply
\* fails.
C27_AssistantFollowsUser ==
    [][ /\ \A k \in DOMAIN conversation' :
              conversation'[k].role = "assistant" =>
                  (k > 1 /\ conversation'[k - 1].role = "user")
        /\ RoleCount(conversation', "assistant") <= RoleCount(conversation', "user")
        /\ UserAppended => (pc' = "agent" \/ outcome' = "cooldown")
        /\ (pc = "stt" /\ outcome' = "cooldown") => UserAppended
        /\ pc' = "agent" =>
              /\ conversation' # <<>>
              /\ conversation'[Len(conversation')] =
                    UserEntry(text', conversation'[Len(conversation')].confidence)
        /\ (pc = "agent" /\ pc' # "agent") =>
              IF outcome' = "agent_failed"
                 THEN conversation' = conversation
                 ELSE conversation' = Append(conversation, AssistantEntry(speak_text')) ]_vars

C27_Witness ==
    /\ Len(conversation) = 3
    /\ conversation[1].role = "user"
    /\ conversation[2].role = "user"
    /\ conversation[3].role = "assistant"

\* ---- outbound audio -----------------------------------------------------------
\* C25: a media event is sent only from the complete encoded audio of the
\* greeting or reply, carries between 1 and 160 bytes of it, starts at offset
\* 0 or where the event before it (a full chunk of the same audio) ended, and
\* the sending ends exactly with the event that reaches the end of the audio.
C25_ChunksInOrder ==
    [][ sent' # sent =>
          LET e == sent'[Len(sent')] IN
            /\ sent' = Append(sent, e)
            /\ pc = "send"
            /\ mulaw_audio > 0
            /\ mulaw_audio' = mulaw_audio
            /\ e.src = caller
            /\ e.text = speak_text
            /\ e.n >= 1
            /\ e.n <= 160
            /\ e.off + e.n <= mulaw_audio
            /\ e.off # 0 =>
                  /\ sent # <<>>
                  /\ sent[Len(sent)].off + 160 = e.off
                  /\ sent[Len(sent)].n = 160
                  /\ sent[Len(sent)].src = e.src
                  /\ sent[Len(sent)].text = e.text
            /\ e.off = i
            /\ pc' = (IF e.off + e.n = mulaw_audio THEN "sleep" ELSE "send") ]_vars

C25_Witness ==
    /\ pc = "sleep"
    /\ caller = "reply"
    /\ Len(sent) >= 2
    /\ sent[Len(sent)].src = "reply"
    /\ sent[Len(sent)].off = 160
    /\ sent[Len(sent)].n = 40
    /\ sent[Len(sent) - 1].src = "reply"
    /\ sent[Len(sent) - 1].off = 0

\* ---- the history of ask_groq ---------------------------------------------------
\* the last n entries of s are the entries of m
IsTailOf(m, s) ==
    /\ Len(m) <= Len(s)
    /\ m = SubSeq(s, Len(s) - Len(m) + 1, Len(s))

\* C28: in conversation_history every assistant entry directly follows a user
\* entry; its length is twice the calls that returned plus the calls that
\* raised, whose prompt stays in the history; a request carries at most 6
\* history entries, the last ones as they were when it was made.
C28_HistoryShape ==
    [][ /\ \A k \in DOMAIN conversation_history' :
              conversation_history'[k].role = "assistant" =>
                  (k > 1 /\ conversation_history'[k - 1].role = "user")
        /\ Len(conversation_history') = 2 * asked'.ok + asked'.failed
        /\ Len(request'.messages) <= 6
        /\ asked' # asked =>
              /\ request'.messages # <<>>
              /\ request'.messages[Len(request'.messages)].role = "user"
              /\ Len(request'.messages) = Min(6, Len(conversation_history) + 1)
              /\ IF asked'.ok > asked.ok
                    THEN /\ Len(conversation_history') = Len(conversation_history) + 2
                         /\ IsTailOf(request'.messages,
                                     SubSeq(conversation_history', 1,
                                            Len(conversation_history') - 1))
                    ELSE /\ Len(conversation_history') = Len(conversation_history) + 1
                         /\ IsTailOf(request'.messages, conversation_history')
        /\ Extends(conversation_history', conversation_history) ]_vars

C28_Witness ==
    /\ asked.ok >= 2
    /\ asked.failed >= 1
    /\ Len(conversation_history) >= 7
    /\ Len(request.messages) = 6
    /\ request.messages[1].role = "assistant"

\* ---- the conversation logger ----------------------------------------------------
\* the metadata counters agree with the stored messages
CountersAgree(conv) ==
    /\ conv.total_user_messages = Cardinality({k \in DOMAIN conv.messages :
                                                  conv.messages[k] = "user"})
    /\ conv.total_assistant_messages = Cardinality({k \in DOMAIN conv.messages :
                                                       conv.messages[k] = "assistant"})

\* the parts of the logger that outlive a call
LoggerState(l) == << l.current_conversation, l.files >>

\* C29: while a conversation is active its two counters equal the numbers of
\* stored user and assistant messages; add_message and end_conversation with
\* no conversation active change nothing and end_conversation returns None;
\* after end_conversation no conversation is active.
C29_LoggerConsistent ==
    [][ /\ \A k \in DOMAIN logger'.current_conversation :
              CountersAgree(logger'.current_conversation[k])
        /\ (logger.current_conversation = <<>>
              /\ logger'.call \in {"add_message", "end_conversation"}) =>
              /\ LoggerState(logger') = LoggerState(logger)
              /\ logger'.result = None
        /\ logger'.call = "end_conversation" => logger'.current_conversation = <<>> ]_vars

\* C29, amended: as above, but no conversation is active after an
\* end_conversation that returns; when writing the file raises, the
\* conversation stays active, unchanged but for its end time, and no file
\* is recorded.
C29_LoggerConsistentUnlessRaised ==
    [][ /\ \A k \in DOMAIN logger'.current_conversation :
              CountersAgree(logger'.current_conversation[k])
        /\ (logger.current_conversation = <<>>
              /\ logger'.call \in {"add_message", "end_conversation"}) =>
              /\ LoggerState(logger') = LoggerState(logger)
              /\ logger'.result = None
        /\ (logger'.call = "end_conversation" /\ logger' # logger) =>
              IF logger'.result = "raised"
                 THEN /\ logger.current_conversation # <<>>
                      /\ logger'.current_conversation =
                            << [logger.current_conversation[1] EXCEPT !.end_time = TRUE] >>
                      /\ logger'.files = logger.files
                 ELSE /\ logger'.current_conversation = <<>>
                      /\ (logger'.result = "conversation_data")
                            = (logger.current_conversation # <<>>) ]_vars

C29_Witness ==
    /\ logger.call = "end_conversation"
    /\ logger.result = "raised"
    /\ logger.files = {"CA1"}
    /\ logger.current_conversation # <<>>
    /\ logger.current_conversation[1].end_time
    /\ logger.current_conversation[1].messages = <<"user", "system", "assistant">>

\* ---- the call recorder -----------------------------------------------------------
\* C30: a chunk is written only by add_audio_chunk with is_recording set and
\* the file open; stop_recording returns a path at most once after a start
\* that succeeded, and returns None when not recording; finalize uploads only
\* when its stop_recording returned a path.
C30_RecorderGuards ==
    [][ /\ recorder'.frames > recorder.frames =>
              /\ recorder'.call = "add_audio_chunk"
              /\ recorder.is_recording
              /\ recorder.recording_file = "open"
        /\ recorder'.paths <= 1
        /\ recorder'.paths > recorder.paths =>
              /\ recorder.is_recording
              /\ recorder'.result = "filepath"
              /\ ~recorder'.is_recording
        /\ ( /\ recorder' # recorder
             /\ recorder'.call \in {"stop_recording", "finalize"}
             /\ ~recorder.is_recording ) =>
              /\ recorder'.result = None
              /\ ~recorder'.uploaded
              /\ recorder'.frames = recorder.frames
        /\ recorder'.uploaded =>
              /\ recorder'.call = "finalize"
              /\ recorder'.result = "filepath"
              /\ recorder'.paths = recorder.paths + 1 ]_vars

C30_Witness ==
    /\ recorder.call = "finalize"
    /\ recorder.uploaded
    /\ recorder.frames = 2
    /\ recorder.paths = 1
    /\ ~recorder.is_recording
    /\ recorder.recording_file = None

====
